---- MODULE Spec2Model ----
(***************************************************************************)
(* pow-account (src/lib.rs): HashPrefix turns a count of leading zero hex  *)
(* digits into a 32-byte target, HashFinder::find searches an origin hash  *)
(* whose Blake2s digest is below the target, HashFinder::check re-hashes a *)
(* hex-encoded origin hash and compares it with the target.                *)
(*                                                                         *)
(* Integers keep their Rust width: u8 values are 0..255, a u128 is a       *)
(* sequence of 16 base-256 limbs, least significant first. An arithmetic   *)
(* overflow panics when the build has overflow checks (a debug build) and  *)
(* wraps when it has none (a release build); overflow_checks is the build. *)
(***************************************************************************)
EXTENDS Integers, Sequences, FiniteSets, TLC

VARIABLES
    overflow_checks,  \* TRUE: the build panics on overflow, FALSE: it wraps
    ctor,             \* the constructor call that made the engine (history)
    built,            \* what that call did: panic or target, overflows met
    finder,           \* the HashFinder value: its target, or absent
    blake2s,          \* the digest function, as far as it has been observed
    pc,               \* "idle", or "finding" inside HashFinder::find's loop
    attempts,         \* loop iterations of the running find (saturating), 0 outside
    found,            \* the last value find returned, <<>> before that
    ret,              \* what the last call on the engine returned
    memo              \* the first check made on the engine and its result

vars == <<overflow_checks, ctor, built, finder, blake2s, pc, attempts, found, ret, memo>>

----------------------------------------------------------------------------
(* Fixed-width arithmetic *)

U8Modulus == 256
U128Limbs == 16
HashLen == 32

Min(a, b) == IF a < b THEN a ELSE b

\* a function on 1..n as the tuple of its values
Array(f) == f \o <<>>

\* u8 * u8: the wrapped product and whether it overflowed
U8Mul(a, b) == [value |-> (a * b) % U8Modulus, overflow |-> a * b >= U8Modulus]

\* u8 - u8: the wrapped difference and whether it underflowed
U8Sub(a, b) == [value |-> (a - b) % U8Modulus, overflow |-> a < b]

U128Zero == Array([i \in 1..U128Limbs |-> 0])
U128One == Array([i \in 1..U128Limbs |-> IF i = 1 THEN 1 ELSE 0])

Pow2(n) == 2 ^ n

\* x << n for 0 <= n < 128, bits shifted past bit 127 dropped
U128ShlBits(x, n) ==
    LET q == n \div 8
        r == n % 8
        limb(j) == IF j >= 1 /\ j <= U128Limbs THEN x[j] ELSE 0
    IN Array([i \in 1..U128Limbs |->
          ((limb(i - q) * Pow2(r)) % U8Modulus) + ((limb(i - q - 1) * Pow2(r)) \div U8Modulus)])

\* u128 << u8: a count of 128 or more overflows; the wrapped result shifts
\* by the count modulo 128
U128Shl(x, n) ==
    [value |-> U128ShlBits(x, n % (8 * U128Limbs)), overflow |-> n >= 8 * U128Limbs]

\* u128 - u128, limb by limb from the least significant: the wrapped
\* difference and whether the last limb borrowed
U128Sub(x, y) ==
    LET borrow[i \in 1..(U128Limbs + 1)] ==
            IF i = 1 THEN 0
            ELSE IF x[i - 1] - y[i - 1] - borrow[i - 1] < 0 THEN 1 ELSE 0
    IN [value |-> Array([i \in 1..U128Limbs |-> (x[i] - y[i] - borrow[i]) % U8Modulus]),
        overflow |-> borrow[U128Limbs + 1] = 1]

\* u128::to_be_bytes: most significant byte first
to_be_bytes(x) == Array([i \in 1..U128Limbs |-> x[U128Limbs + 1 - i]])

\* a comparison that also accepts equal arrays (<= written for <)
LessOrEqual(a, b) ==
    ~(\E i \in 1..Min(Len(a), Len(b)) :
        a[i] > b[i] /\ \A j \in 1..(i - 1) : a[j] = b[j])

\* [u8; N] < [u8; N]: lexicographic, the first differing byte decides
Less(a, b) ==
    LET differ == {i \in 1..Min(Len(a), Len(b)) : a[i] # b[i]}
    IN IF differ = {} THEN Len(a) < Len(b)
       ELSE LET first == CHOOSE i \in differ : \A j \in differ : i <= j
            IN a[first] < b[first]

----------------------------------------------------------------------------
(* HashPrefix: the target encoder *)

DefaultZeroBits == 20
BitsPerHexDigit == 8 \div 2
TotalBits == 128

\* a default of four leading zero digits instead of five
HashPrefix_default_four == [zero_bits |-> 16, panic |-> FALSE, faults |-> {}]

\* HashPrefix::default
HashPrefix_default == [zero_bits |-> DefaultZeroBits, panic |-> FALSE, faults |-> {}]

\* HashPrefix::new: zero_bits = 8 / 2 * leading_zeros in u8
HashPrefix_new(leading_zeros, checks) ==
    LET p == U8Mul(BitsPerHexDigit, leading_zeros)
    IN [zero_bits |-> p.value,
        panic |-> checks /\ p.overflow,
        faults |-> IF p.overflow THEN {"mul"} ELSE {}]

\* HashPrefix::target_u128: remaining_bits is computed before the match
HashPrefix_target_u128(zero_bits, checks) ==
    LET remaining_bits == U8Sub(TotalBits, zero_bits)
        subFault == IF remaining_bits.overflow THEN {"sub"} ELSE {}
        shifted == U128Shl(U128One, remaining_bits.value)
        shlFault == IF shifted.overflow THEN {"shl"} ELSE {}
    IN IF checks /\ remaining_bits.overflow
         THEN [panic |-> TRUE, value |-> U128Zero, faults |-> subFault]
       ELSE IF zero_bits < TotalBits
         THEN IF checks /\ shifted.overflow
                THEN [panic |-> TRUE, value |-> U128Zero, faults |-> subFault \cup shlFault]
              ELSE [panic |-> FALSE,
                    value |-> U128Sub(shifted.value, U128One).value,
                    faults |-> subFault \cup shlFault]
       ELSE [panic |-> FALSE, value |-> U128One, faults |-> subFault]

\* HashPrefix::target: [255; 32] with the cutoff's big-endian bytes copied
\* over the first 16
HashPrefix_target(prefix, checks) ==
    LET t == HashPrefix_target_u128(prefix.zero_bits, checks)
        be == to_be_bytes(t.value)
    IN [panic |-> t.panic,
        target |-> Array([i \in 1..HashLen |->
                            IF i <= U128Limbs THEN be[i] ELSE U8Modulus - 1]),
        faults |-> prefix.faults \cup t.faults]

NoTarget == <<>>

\* HashFinder::new: a panic in HashPrefix::new unwinds before target runs
HashFinder_new(leading_zeros, checks) ==
    LET prefix == HashPrefix_new(leading_zeros, checks)
    IN IF prefix.panic
         THEN [panic |-> TRUE, target |-> NoTarget, faults |-> prefix.faults]
       ELSE LET t == HashPrefix_target(prefix, checks)
            IN [panic |-> t.panic,
                target |-> IF t.panic THEN NoTarget ELSE t.target,
                faults |-> t.faults]

\* HashFinder::default
HashFinder_default(checks) ==
    LET t == HashPrefix_target(HashPrefix_default, checks)
    IN [panic |-> t.panic,
        target |-> IF t.panic THEN NoTarget ELSE t.target,
        faults |-> t.faults]

----------------------------------------------------------------------------
(* Hex text: a string is a sequence of one-character strings *)

HexChars == <<"0", "1", "2", "3", "4", "5", "6", "7", "8", "9", "a", "b", "c", "d", "e", "f">>
UpperHexChars == <<"0", "1", "2", "3", "4", "5", "6", "7", "8", "9", "A", "B", "C", "D", "E", "F">>

\* two digits of table a byte, high nibble first
encode_with(table, bytes) ==
    Array([i \in 1..(2 * Len(bytes)) |->
        IF i % 2 = 1 THEN table[(bytes[(i + 1) \div 2] \div 16) + 1]
        ELSE table[(bytes[i \div 2] % 16) + 1]])

\* hex::encode: lower-case digits
encode(bytes) == encode_with(HexChars, bytes)

\* hex::encode_upper: upper-case digits
encode_upper(bytes) == encode_with(UpperHexChars, bytes)

NoErr == [kind |-> "None", c |-> "", index |-> 0]
OddLength == [kind |-> "OddLength", c |-> "", index |-> 0]
InvalidStringLength == [kind |-> "InvalidStringLength", c |-> "", index |-> 0]
InvalidHexCharacter(c, index) == [kind |-> "InvalidHexCharacter", c |-> c, index |-> index]

\* the digits hex's val accepts, either case, with their values
HexValue ==
    ("0" :> 0) @@ ("1" :> 1) @@ ("2" :> 2) @@ ("3" :> 3) @@ ("4" :> 4) @@ ("5" :> 5)
    @@ ("6" :> 6) @@ ("7" :> 7) @@ ("8" :> 8) @@ ("9" :> 9)
    @@ ("a" :> 10) @@ ("b" :> 11) @@ ("c" :> 12) @@ ("d" :> 13) @@ ("e" :> 14) @@ ("f" :> 15)
    @@ ("A" :> 10) @@ ("B" :> 11) @@ ("C" :> 12) @@ ("D" :> 13) @@ ("E" :> 14) @@ ("F" :> 15)

HexDigits == DOMAIN HexValue

\* hex's val: the digit's value, or the character and its zero-based index
val(c, idx) ==
    IF c \in HexDigits THEN [err |-> NoErr, v |-> HexValue[c]]
    ELSE [err |-> InvalidHexCharacter(c, idx), v |-> 0]

\* hex::decode_to_slice(data, out) with out of out_len bytes: the length
\* checks come first, then the digits in order, the first bad one reported
decode_to_slice(data, out_len) ==
    IF Len(data) % 2 # 0 THEN [err |-> OddLength, bytes |-> <<>>]
    ELSE IF Len(data) \div 2 # out_len THEN [err |-> InvalidStringLength, bytes |-> <<>>]
    ELSE LET bad == {i \in 1..Len(data) : val(data[i], i - 1).err # NoErr}
         IN IF bad # {}
              THEN LET first == CHOOSE i \in bad : \A j \in bad : i <= j
                   IN [err |-> val(data[first], first - 1).err, bytes |-> <<>>]
            ELSE [err |-> NoErr,
                  bytes |-> Array([k \in 1..out_len |->
                      (val(data[2 * k - 1], 2 * k - 2).v * 16) + val(data[2 * k], 2 * k - 1).v])]

----------------------------------------------------------------------------
(* Entropy and the digest *)

\* blake2s_hash_can_be_validated: the one digest the repository states
KnownEntropy ==
    <<195, 114, 137, 180, 137, 73, 167, 209, 114, 52, 108, 179, 229, 96, 13, 169,
      5, 245, 62, 124, 2, 45, 54, 72, 54, 220, 245, 125, 180, 222, 51, 250>>

KnownDigest ==
    <<116, 120, 152, 114, 147, 225, 134, 79, 216, 51, 174, 54, 7, 188, 153, 185,
      178, 46, 124, 163, 155, 206, 210, 28, 59, 4, 40, 189, 156, 114, 24, 186>>

\* origin hashes of the repository's tests
TestOrigin3 ==
    <<60, 167, 39, 199, 254, 254, 214, 116, 38, 135, 151, 136, 47, 244, 178, 108,
      142, 40, 135, 62, 230, 251, 250, 231, 29, 156, 204, 53, 226, 68, 68, 212>>

TestOrigin4 ==
    <<115, 184, 243, 139, 224, 38, 51, 94, 183, 137, 70, 234, 48, 67, 79, 243,
      206, 228, 207, 246, 84, 77, 73, 180, 119, 47, 128, 57, 125, 64, 231, 47>>

Zero32 == Array([i \in 1..HashLen |-> 0])

Max32 == Array([i \in 1..HashLen |-> U8Modulus - 1])

\* Blake2s256 of thirty-two zero bytes
ZeroDigest ==
    <<50, 11, 94, 169, 158, 101, 59, 194, 181, 147, 219, 65, 48, 209, 10, 78,
      253, 58, 11, 76, 194, 225, 166, 103, 43, 103, 141, 113, 223, 189, 51, 173>>

\* the digests known before any call
KnownDigests == (KnownEntropy :> KnownDigest) @@ (Zero32 :> ZeroDigest)

\* Entropy::new().hash(): the digest of a fresh 32-byte sample. The sample is
\* never seen again, so its digest is any of these values.
Origins == {TestOrigin3, TestOrigin4}

\* Entropy::from(entropy).hash() under digest function h
Entropy_hash(entropy, h) == h[entropy]

\* the largest value below target t (every target ends in 0xff)
JustBelow(t) == [t EXCEPT ![HashLen] = t[HashLen] - 1]

\* Blake2s256 is a fixed function of which the model knows KnownDigests; the
\* digest of any other buffer is fixed when it is first observed: at one of
\* the two values that straddle the engine's target, or at the largest value.
DigestChoices(x) ==
    IF x \in DOMAIN blake2s THEN {blake2s[x]}
    ELSE {JustBelow(finder.target), finder.target, Max32}

\* the digest function once x's digest g has been observed
Observed(x, g) == (x :> g) @@ blake2s

----------------------------------------------------------------------------
(* HashFinder *)

NoFinder == [target |-> NoTarget]

\* a loop that never accepts a digest
HashFinder_find_never(self, origin_hash, h) == FALSE

\* a loop that accepts every digest
HashFinder_find_always(self, origin_hash, h) == TRUE

\* HashFinder::find, one iteration of its loop on origin_hash with digest
\* function h: TRUE returns origin_hash, FALSE continues
HashFinder_find_matches(self, origin_hash, h) ==
    LET target_hash == Entropy_hash(origin_hash, h)
    IN Less(target_hash, self.target)

\* a check that reports a decode error as Ok(false)
HashFinder_check_masking(self, origin_hash, h) ==
    LET decoded == decode_to_slice(origin_hash, HashLen)
    IN IF decoded.err # NoErr
         THEN [self |-> self, tag |-> "Ok", b |-> FALSE, err |-> NoErr]
       ELSE [self |-> self, tag |-> "Ok",
             b |-> Less(Entropy_hash(decoded.bytes, h), self.target), err |-> NoErr]

\* a check that compares the decoded bytes themselves, without hashing them
HashFinder_check_unhashed(self, origin_hash, h) ==
    LET decoded == decode_to_slice(origin_hash, HashLen)
    IN IF decoded.err # NoErr
         THEN [self |-> self, tag |-> "Err", b |-> FALSE, err |-> decoded.err]
       ELSE [self |-> self, tag |-> "Ok",
             b |-> Less(decoded.bytes, self.target), err |-> NoErr]

\* a check that leaves the digest it computed in the engine's target
HashFinder_check_clobbering(self, origin_hash, h) ==
    LET decoded == decode_to_slice(origin_hash, HashLen)
    IN IF decoded.err # NoErr
         THEN [self |-> self, tag |-> "Err", b |-> FALSE, err |-> decoded.err]
       ELSE [self |-> [target |-> Entropy_hash(decoded.bytes, h)], tag |-> "Ok",
             b |-> Less(Entropy_hash(decoded.bytes, h), self.target), err |-> NoErr]

\* HashFinder::check(&self, origin_hash) under digest function h: the result
\* and the engine after the call
HashFinder_check(self, origin_hash, h) ==
    LET decoded == decode_to_slice(origin_hash, HashLen)
    IN IF decoded.err # NoErr
         THEN [self |-> self, tag |-> "Err", b |-> FALSE, err |-> decoded.err]
       ELSE LET target_hash_bytes == Entropy_hash(decoded.bytes, h)
            IN [self |-> self, tag |-> "Ok",
                b |-> Less(target_hash_bytes, self.target), err |-> NoErr]

----------------------------------------------------------------------------
(* The state machine: one engine is constructed, then find and check are  *)
(* called on it; a verifier checks a found value with an engine of its own *)

MaxAttempts == 2

U8 == 0..(U8Modulus - 1)
Difficulties == 0..32

NoCtor == [fn |-> "none", leading_zeros |-> 0]
NoBuilt == [panic |-> FALSE, target |-> NoTarget, faults |-> {}]
NoRet == [op |-> "none", leading_zeros |-> 0, input |-> <<>>, tag |-> "None",
          b |-> FALSE, err |-> NoErr, value |-> <<>>]
NoMemo == [input |-> <<>>, tag |-> "None", b |-> FALSE, err |-> NoErr]

Init ==
    /\ overflow_checks \in BOOLEAN
    /\ ctor = NoCtor
    /\ built = NoBuilt
    /\ finder = NoFinder
    /\ blake2s = KnownDigests
    /\ pc = "idle"
    /\ attempts = 0
    /\ found = <<>>
    /\ ret = NoRet
    /\ memo = NoMemo

Ready == ctor.fn # "none" /\ ~built.panic /\ pc = "idle"

Construct(call, result) ==
    /\ ctor.fn = "none"
    /\ ctor' = call
    /\ built' = result
    /\ finder' = IF result.panic THEN NoFinder ELSE [target |-> result.target]
    /\ UNCHANGED <<overflow_checks, blake2s, pc, attempts, found, ret, memo>>

\* let engine = HashFinder::new(leading_zeros)
New(leading_zeros) ==
    Construct([fn |-> "new", leading_zeros |-> leading_zeros],
              HashFinder_new(leading_zeros, overflow_checks))

\* let engine = HashFinder::default()
Default ==
    Construct([fn |-> "default", leading_zeros |-> 0], HashFinder_default(overflow_checks))

\* engine.find() is entered
FindCall ==
    /\ Ready
    /\ pc' = "finding"
    /\ attempts' = 0
    /\ UNCHANGED <<overflow_checks, ctor, built, finder, blake2s, found, ret, memo>>

\* a loop iteration whose target_hash is below the target: find returns
FindReturn ==
    /\ pc = "finding"
    /\ \E origin_hash \in Origins : \E g \in DigestChoices(origin_hash) :
         LET h == Observed(origin_hash, g)
         IN /\ HashFinder_find_matches(finder, origin_hash, h)
            /\ blake2s' = h
            /\ found' = origin_hash
            /\ ret' = [NoRet EXCEPT !.op = "find", !.tag = "Value", !.value = origin_hash]
    /\ pc' = "idle"
    /\ attempts' = 0
    /\ UNCHANGED <<overflow_checks, ctor, built, finder, memo>>

\* a loop iteration whose target_hash is not below the target: both hashes
\* are dropped and the loop continues
FindRetry ==
    /\ pc = "finding"
    /\ \E origin_hash \in Origins : \E g \in DigestChoices(origin_hash) :
         ~HashFinder_find_matches(finder, origin_hash, Observed(origin_hash, g))
    /\ attempts' = Min(attempts + 1, MaxAttempts)
    /\ UNCHANGED <<overflow_checks, ctor, built, finder, blake2s, pc, found, ret, memo>>

\* checks_the_hash_for_the_required_number_of_leading_zeros: its malformed inputs
BadCharInput == [encode(TestOrigin3) EXCEPT ![3] = "+"]
OddInput == SubSeq(encode(TestOrigin3), 1, 2 * HashLen - 1)
LongInput == encode(TestOrigin3) \o <<"4", "4", "d", "4">>

ZeroInput == encode(Zero32)
KnownInput == encode(KnownEntropy)

\* the texts a caller passes to check
Inputs ==
    {ZeroInput, KnownInput, BadCharInput, OddInput, LongInput}
        \cup (IF found = <<>> THEN {} ELSE {encode(found), encode_upper(found)})

\* the digest functions a call of check on text may observe
OraclesFor(text) ==
    LET decoded == decode_to_slice(text, HashLen)
    IN IF decoded.err # NoErr THEN {blake2s}
       ELSE {Observed(decoded.bytes, g) : g \in DigestChoices(decoded.bytes)}

\* engine.check(origin_hash)
Check(origin_hash) ==
    /\ Ready
    /\ \E h \in OraclesFor(origin_hash) :
       \E r \in {HashFinder_check(finder, origin_hash, h)} :
         /\ blake2s' = h
         /\ finder' = r.self
         /\ ret' = [NoRet EXCEPT !.op = "check", !.input = origin_hash,
                                 !.tag = r.tag, !.b = r.b, !.err = r.err]
         /\ memo' = IF memo = NoMemo
                      THEN [input |-> origin_hash, tag |-> r.tag, b |-> r.b, err |-> r.err]
                    ELSE memo
    /\ UNCHANGED <<overflow_checks, ctor, built, pc, attempts, found>>

\* HashFinder::new(leading_zeros).check(hex::encode(origin_hash)) on the value
\* find has just returned, by a verifier that constructs its own engine
VerifierCheck(leading_zeros) ==
    /\ Ready
    /\ ret.op = "find"
    /\ \E made \in {HashFinder_new(leading_zeros, overflow_checks)} :
       \E text \in {encode(found)} :
         IF made.panic
           THEN ret' = [NoRet EXCEPT !.op = "verify", !.leading_zeros = leading_zeros,
                                     !.input = text, !.tag = "Panic"]
         ELSE \E r \in {HashFinder_check([target |-> made.target], text, blake2s)} :
                ret' = [NoRet EXCEPT !.op = "verify", !.leading_zeros = leading_zeros,
                                     !.input = text, !.tag = r.tag, !.b = r.b,
                                     !.err = r.err]
    /\ UNCHANGED <<overflow_checks, ctor, built, finder, blake2s, pc, attempts, found, memo>>

Next ==
    \/ \E d \in Difficulties : New(d)
    \/ Default
    \/ FindCall
    \/ FindReturn
    \/ FindRetry
    \/ \E text \in Inputs : Check(text)

Spec == Init /\ [][Next]_vars

\* construction alone, over every u8 difficulty
NextEncode ==
    \/ \E d \in U8 : New(d)
    \/ Default

SpecEncode == Init /\ [][NextEncode]_vars

\* construction and find, the search succeeding on a fair draw
NextFind ==
    \/ \E d \in Difficulties : New(d)
    \/ Default
    \/ FindCall
    \/ FindReturn
    \/ FindRetry

FairSpec == Init /\ [][NextFind]_vars /\ WF_vars(FindReturn)

\* a value is found with one engine and checked by verifiers with their own
NextRoundTrip ==
    \/ \E d \in Difficulties : New(d)
    \/ Default
    \/ FindCall
    \/ FindReturn
    \/ FindRetry
    \/ \E d \in Difficulties : VerifierCheck(d)

SpecRoundTrip == Init /\ [][NextRoundTrip]_vars

----------------------------------------------------------------------------
(* Properties of the target encoder *)

\* the reference encoder: byte i of the 128-bit big-endian cutoff that has
\* zero_bits leading zero bits, 1 from 128 zero bits on
RefCutoffByte(zero_bits, i) ==
    IF zero_bits >= TotalBits THEN (IF i = U128Limbs THEN 1 ELSE 0)
    ELSE IF 8 * i <= zero_bits THEN 0
    ELSE IF 8 * (i - 1) >= zero_bits THEN U8Modulus - 1
    ELSE 2 ^ (8 - (zero_bits - 8 * (i - 1))) - 1

\* the reference threshold of difficulty d: 4 * d without wraparound
RefThreshold(d) ==
    Array([i \in 1..HashLen |->
        IF i <= U128Limbs THEN RefCutoffByte(4 * d, i) ELSE U8Modulus - 1])

\* the upper 16 bytes of a 32-byte value
Upper(v) == SubSeq(v, 1, U128Limbs)

\* the number of leading '0' characters of a text
LeadingZeros(text) ==
    LET other == {i \in 1..Len(text) : text[i] # "0"}
    IN IF other = {} THEN Len(text)
       ELSE (CHOOSE i \in other : \A j \in other : i <= j) - 1

BuiltByNew == ctor.fn = "new"
BuiltByDefault == ctor.fn = "default"

\* C4: for every difficulty d in 0..=255, HashFinder::new(d) yields the
\* reference threshold: 2^(128 - 4d) - 1 big-endian in the first 16 bytes when
\* 4d < 128 and 1 when 4d >= 128, then sixteen 0xff bytes.
C4_ThresholdIsReference ==
    BuiltByNew =>
        /\ ~built.panic
        /\ built.target = RefThreshold(ctor.leading_zeros)

\* new(0) in a build that wraps: the cutoff is 0 where the reference has all
\* bits set
C4_ZeroDifficultyDiverges ==
    /\ BuiltByNew
    /\ ctor.leading_zeros = 0
    /\ ~overflow_checks
    /\ ~built.panic
    /\ Upper(built.target) = to_be_bytes(U128Zero)
    /\ built.target # RefThreshold(0)

\* C5: for every difficulty d in 0..=255, HashFinder::new(d) completes with
\* no arithmetic fault: no overflow of 4 * d, no underflow of 128 - zero_bits,
\* no shift by 128 or more, and its cutoff is not 0.
C5_ConstructionNeverFaults ==
    BuiltByNew =>
        /\ built.faults = {}
        /\ ~built.panic
        /\ Upper(built.target) # to_be_bytes(U128Zero)

\* new(64) in a build that panics on overflow: 4 * 64 overflows u8
C5_MultiplicationOverflows ==
    /\ BuiltByNew
    /\ ctor.leading_zeros = 64
    /\ overflow_checks
    /\ built.panic
    /\ built.faults = {"mul"}

\* the target of default_target_matches_max_value
DefaultTargetVector ==
    Array([i \in 1..HashLen |-> IF i <= 2 THEN 0 ELSE IF i = 3 THEN 15 ELSE U8Modulus - 1])

\* texts whose check needs no digest but the known ones
TestInputs == {ZeroInput, KnownInput, BadCharInput, OddInput, LongInput}

\* C7: HashFinder::default() has the threshold of HashFinder::new(5), bytes
\* 00 00 0f then twenty-nine ff, so the two engines are equal and check gives
\* the same result with either on every input.
C7_DefaultIsDifficultyFive ==
    /\ BuiltByDefault =>
         /\ ~built.panic
         /\ built.target = DefaultTargetVector
         /\ built.target = RefThreshold(5)
    /\ (BuiltByNew /\ ctor.leading_zeros = 5) =>
         /\ ~built.panic
         /\ built.target = DefaultTargetVector
         /\ \A text \in TestInputs :
              LET byNew == HashFinder_check(finder, text, KnownDigests)
                  byDefault == HashFinder_check([target |-> HashFinder_default(overflow_checks).target],
                                                text, KnownDigests)
              IN byNew.tag = byDefault.tag /\ byNew.b = byDefault.b /\ byNew.err = byDefault.err

\* the default engine has been constructed
C7_DefaultBuilt ==
    /\ BuiltByDefault
    /\ ~built.panic
    /\ finder.target[3] = 15

\* the values the comparison is probed with: the reference thresholds, their
\* predecessors, and the values of the tests
RefProbes ==
    {Zero32, Max32, KnownDigest, ZeroDigest, KnownEntropy, TestOrigin3, TestOrigin4}
        \cup {RefThreshold(k) : k \in Difficulties}
        \cup {JustBelow(RefThreshold(k)) : k \in Difficulties}

Probes == RefProbes \cup {built.target, JustBelow(built.target)}

\* the upper 16 bytes of v, as a 128-bit big-endian integer, are <= those of t
UpperAtMost(v, t) == ~Less(Upper(t), Upper(v))

ComparesFor(d) == BuiltByNew /\ ctor.leading_zeros = d /\ ~built.panic

----------------------------------------------------------------------------
(* Properties of check *)

\* the 32 bytes a text decodes to
DecodedOf(text) == decode_to_slice(text, HashLen).bytes

CheckReturnedOk == ret.op = "check" /\ ret.tag = "Ok"

\* C2: for every engine and every input that decodes to exactly 32 bytes,
\* check returns Ok(b) where b is true exactly when the Blake2s digest of the
\* decoded value is below the engine's threshold; the all-zero string gives
\* Ok(false), and the encoding of a value the engine's find returned gives
\* Ok(true) whatever its first hex digit.
C2_CheckComparesDigest ==
    CheckReturnedOk =>
        /\ ret.b = Less(blake2s[DecodedOf(ret.input)], built.target)
        /\ ret.input = ZeroInput => ~ret.b
        /\ (found # <<>> /\ ret.input = encode(found)) => ret.b

\* checks_the_hash_for_the_required_number_of_leading_zeros: at difficulty 3
\* the text 3ca7... is accepted, and its decoded value is above the threshold
C2_NonzeroDigitAccepted ==
    /\ CheckReturnedOk
    /\ BuiltByNew
    /\ ctor.leading_zeros = 3
    /\ ret.input = encode(TestOrigin3)
    /\ ret.b
    /\ ~Less(TestOrigin3, built.target)

\* C2 as the specification has it: b is true exactly when the decoded value
\* itself is below the threshold
C2_CheckComparesDecodedValue ==
    CheckReturnedOk =>
        ret.b = Less(DecodedOf(ret.input), built.target)

\* C6: check on a 64-character text with one non-hex character returns
\* Err(InvalidHexCharacter) with that character and its index, on a
\* 63-character text Err(OddLength), on a hex text of another even length
\* Err(InvalidStringLength), and Ok only on 64 hex characters.
C6_DecodeErrorsSurface ==
    ret.op = "check" =>
        /\ ret.tag \in {"Ok", "Err"}
        /\ ret.input = BadCharInput =>
             /\ ret.tag = "Err"
             /\ ret.err = [kind |-> "InvalidHexCharacter", c |-> "+", index |-> 2]
        /\ ret.input = OddInput =>
             /\ ret.tag = "Err"
             /\ ret.err = [kind |-> "OddLength", c |-> "", index |-> 0]
        /\ ret.input = LongInput =>
             /\ ret.tag = "Err"
             /\ ret.err = [kind |-> "InvalidStringLength", c |-> "", index |-> 0]
        /\ ret.tag = "Ok" =>
             /\ Len(ret.input) = 2 * HashLen
             /\ \A i \in 1..Len(ret.input) : ret.input[i] \in HexDigits

\* a check of the text with '+' at index 2 has returned its error
C6_BadCharacterReported ==
    /\ ret.op = "check"
    /\ ret.input = BadCharInput
    /\ ret.tag = "Err"
    /\ ret.err.c = "+"
    /\ ret.err.index = 2

\* C10: after any sequence of find and check calls the engine's threshold is
\* the one computed at construction, and a check of the text of the engine's
\* first check returns what the first check returned.
C10_EngineImmutableCheckDeterministic ==
    /\ (ctor.fn # "none" /\ ~built.panic) => finder.target = built.target
    /\ (ret.op = "check" /\ memo.input = ret.input) =>
         /\ memo.tag = ret.tag
         /\ memo.b = ret.b
         /\ memo.err = ret.err

\* the text of the engine's first check is checked on an engine whose find
\* has returned, and the threshold is still the constructed one
C10_Rechecked ==
    /\ ret.op = "check"
    /\ memo.input = ZeroInput
    /\ ret.input = ZeroInput
    /\ found # <<>>
    /\ finder.target = built.target

----------------------------------------------------------------------------
(* Properties of find *)

FoundByNew == BuiltByNew /\ found # <<>>

\* C3: for every difficulty d in 0..=31 and every value find returns, the
\* hex encoding of the value's digest starts with at least d '0' characters;
\* at difficulty 32 it starts with at least 31.
C3_FoundDigestZeros ==
    FoundByNew =>
        LeadingZeros(encode(blake2s[found])) >= Min(ctor.leading_zeros, 31)

\* difficulty 4: a value has been found whose digest starts with "0000"
C3_FoundAtFour ==
    /\ FoundByNew
    /\ ctor.leading_zeros = 4
    /\ SubSeq(encode(blake2s[found]), 1, 4) = <<"0", "0", "0", "0">>

\* C3 as the specification has it: at least d '0' characters for every
\* difficulty d in 0..=32
C3_FoundDigestZerosUpTo32 ==
    FoundByNew =>
        LeadingZeros(encode(blake2s[found])) >= ctor.leading_zeros

Verified == ret.op = "verify" /\ BuiltByNew

\* C1: for all difficulties d' <= d in 0..=32, the hex encoding of a value
\* returned by HashFinder::new(d).find() makes HashFinder::new(d').check
\* return Ok(true).
C1_RoundTrip ==
    (Verified /\ ret.leading_zeros <= ctor.leading_zeros) =>
        (ret.tag = "Ok" /\ ret.b)

\* a value found at difficulty 4 is rejected by the difficulty-0 verifier of
\* a build that wraps
C1_ZeroVerifierRejects ==
    /\ Verified
    /\ ctor.leading_zeros = 4
    /\ ret.leading_zeros = 0
    /\ ~overflow_checks
    /\ ret.tag = "Ok"
    /\ ~ret.b

====
